---------------------------- MODULE Spec2Model ----------------------------
(***************************************************************************)
(* A model of designer_portal.py, the Kindrette carpentry quote tool: the  *)
(* memoized catalog loader, the supplier-B suffix filter, the session      *)
(* selection list with its reconciliation pass, and margin/tax pricing.    *)
(*                                                                         *)
(* Conventions.                                                            *)
(*  - A Python str is a sequence of one-character strings, so that lower,  *)
(*    upper, strip, endswith, contains and float() are computed character  *)
(*    by character.                                                        *)
(*  - A Python float is an exact rational [nan, n, d] in lowest terms      *)
(*    (d > 0), or NaN.  Binary rounding error of IEEE doubles is not       *)
(*    modelled; round() is round-half-to-even on the exact value.          *)
(*  - The bytes of a CSV source are a name ("A1", ...); pd.read_csv is the *)
(*    table ReadCsv gives for that name (or a raise).                      *)
(*  - One action is one user interaction: the callback (if any) followed   *)
(*    by the whole top-to-bottom run of the script, st.experimental_rerun  *)
(*    passes included.                                                     *)
(***************************************************************************)
EXTENDS Integers, Sequences, FiniteSets, TLC

VARIABLES
    uploads,   \* a_up / b_up: the uploaded bytes of each side, or None
    files,     \* supplier_a.csv / supplier_b.csv on disk: [content, mtime]
    cache,     \* st.cache_data store of load_catalogs_from_tokens
    lines,     \* st.session_state.lines
    w,         \* sidebar widget state: supplier, home, laminate, q, pricing inputs
    out,       \* what the last script run produced (catalogs, warning, figures)
    mtimeKept, \* history: an edit changed a bundled file but not its mtime
    call       \* the last direct call of choose_suffix / sell_from_margin

vars == <<uploads, files, cache, lines, w, out, mtimeKept, call>>

None == "None"

\* F(e), with e evaluated once whatever the number of uses F makes of it
Bind(e, F(_)) == CHOOSE y \in {F(x) : x \in {e}} : TRUE

-----------------------------------------------------------------------------
(* Python str operations                                                   *)

UpperAlpha == <<"A","B","C","D","E","F","G","H","I","J","K","L","M",
                "N","O","P","Q","R","S","T","U","V","W","X","Y","Z">>
LowerAlpha == <<"a","b","c","d","e","f","g","h","i","j","k","l","m",
                "n","o","p","q","r","s","t","u","v","w","x","y","z">>

LowerChar(c) ==
    IF \E i \in 1..Len(UpperAlpha) : UpperAlpha[i] = c
    THEN LowerAlpha[CHOOSE i \in 1..Len(UpperAlpha) : UpperAlpha[i] = c]
    ELSE c

UpperChar(c) ==
    IF \E i \in 1..Len(LowerAlpha) : LowerAlpha[i] = c
    THEN UpperAlpha[CHOOSE i \in 1..Len(LowerAlpha) : LowerAlpha[i] = c]
    ELSE c

StrLower(s) == [i \in 1..Len(s) |-> LowerChar(s[i])]
StrUpper(s) == [i \in 1..Len(s) |-> UpperChar(s[i])]

IsSpace(c) == c \in {" ", "\t"}

RECURSIVE LStrip(_)
LStrip(s) == IF s # <<>> /\ IsSpace(Head(s)) THEN LStrip(Tail(s)) ELSE s

RECURSIVE RStrip(_)
RStrip(s) ==
    IF s # <<>> /\ IsSpace(s[Len(s)]) THEN RStrip(SubSeq(s, 1, Len(s) - 1)) ELSE s

StrStrip(s) == RStrip(LStrip(s))

EndsWith(s, suf) ==
    /\ Len(suf) <= Len(s)
    /\ SubSeq(s, Len(s) - Len(suf) + 1, Len(s)) = suf

Contains(s, sub) ==
    \E i \in 0..(Len(s) - Len(sub)) : SubSeq(s, i + 1, i + Len(sub)) = sub

-----------------------------------------------------------------------------
(* Python float as an exact rational, or NaN                               *)

NaN == [nan |-> TRUE, n |-> 0, d |-> 1]

Abs(x) == IF x < 0 THEN -x ELSE x

RECURSIVE Gcd(_, _)
Gcd(a, b) == IF b = 0 THEN a ELSE Gcd(b, a % b)

Rat(n, d) ==
    Bind(Gcd(Abs(n), d), LAMBDA g : [nan |-> FALSE, n |-> n \div g, d |-> d \div g])

Num(k) == Rat(k, 1)

IsNaN(x) == x.nan

Mul(x, y) == IF x.nan \/ y.nan THEN NaN ELSE Rat(x.n * y.n, x.d * y.d)
Add(x, y) == IF x.nan \/ y.nan THEN NaN ELSE Rat(x.n * y.d + y.n * x.d, x.d * y.d)
\* x / y; callers divide by positive values only
Div(x, y) == IF x.nan \/ y.nan THEN NaN ELSE Rat(x.n * y.d, x.d * y.n)
Geq(x, y) == x.n * y.d >= y.n * x.d

RECURSIVE Pow10(_)
Pow10(k) == IF k = 0 THEN 1 ELSE 10 * Pow10(k - 1)

\* round(x, nd): to nd decimals, ties to the even digit; NaN stays NaN
Round(x, nd) ==
    IF x.nan THEN NaN
    ELSE Bind(Pow10(nd), LAMBDA p :
           Bind((x.n * p) \div x.d, LAMBDA q :
             Bind((x.n * p) % x.d, LAMBDA r :
               Rat(IF 2 * r > x.d \/ (2 * r = x.d /\ q % 2 = 1) THEN q + 1 ELSE q, p))))

Digits == <<"0","1","2","3","4","5","6","7","8","9">>
IsDigit(c) == \E i \in 1..Len(Digits) : Digits[i] = c
DigitVal(c) == (CHOOSE i \in 1..Len(Digits) : Digits[i] = c) - 1

RECURSIVE DigitsVal(_)
DigitsVal(s) == IF s = <<>> THEN 0
                ELSE 10 * DigitsVal(SubSeq(s, 1, Len(s) - 1)) + DigitVal(s[Len(s)])

AllDigits(s) == \A i \in 1..Len(s) : IsDigit(s[i])

\* float() of a text that is already stripped and unsigned: digits[.digits]
ParseUnsigned(body, neg) ==
    Bind({i \in 1..Len(body) : body[i] = "."}, LAMBDA dots :
      IF Cardinality(dots) > 1 THEN [raised |-> TRUE, val |-> NaN]
      ELSE Bind(IF dots = {} THEN Len(body) + 1 ELSE CHOOSE i \in dots : TRUE, LAMBDA dot :
             Bind(<<SubSeq(body, 1, dot - 1), SubSeq(body, dot + 1, Len(body))>>, LAMBDA p :
               IF ~AllDigits(p[1]) \/ ~AllDigits(p[2]) \/ (p[1] = <<>> /\ p[2] = <<>>)
               THEN [raised |-> TRUE, val |-> NaN]
               ELSE Bind(DigitsVal(p[1]) * Pow10(Len(p[2])) + DigitsVal(p[2]), LAMBDA mag :
                      [raised |-> FALSE,
                       val |-> Rat(IF neg THEN -mag ELSE mag, Pow10(Len(p[2])))]))))

\* float(s) for the decimal grammar [ws][sign]digits[.digits][ws] (and
\* "nan"); on any other text float() raises ValueError: [raised |-> TRUE].
ParseFloat(str) ==
    Bind(StrStrip(str), LAMBDA s :
      Bind(IF s # <<>> /\ Head(s) \in {"-", "+"} THEN Tail(s) ELSE s, LAMBDA body :
        IF StrLower(body) = <<"n","a","n">> THEN [raised |-> FALSE, val |-> NaN]
        ELSE ParseUnsigned(body, s # <<>> /\ Head(s) = "-")))

-----------------------------------------------------------------------------
(* CSV sources and pd.read_csv                                             *)

cSku         == <<"s","k","u">>
cDescription == <<"d","e","s","c","r","i","p","t","i","o","n">>
cUnit        == <<"u","n","i","t">>
cPrice       == <<"p","r","i","c","e">>
cNotes       == <<"N","o","t","e","s">>

LowerHeader == <<cSku, cDescription, cUnit, cPrice>>
MixedHeader == <<<<"S","K","U">>, <<"D","e","s","c","r","i","p","t","i","o","n">>,
                 cNotes, <<"U","n","i","t">>, <<"P","R","I","C","E">>>>

skuA100  == <<"A","-","1","0","0">>
skuA200  == <<"A","-","2","0","0">>
skuTSNS  == <<"T","-","S","N","S">>
skuTHDB  == <<"T","-","H","D","B">>
skuTCONDO == <<"T","-","C","O","N","D","O">>

Row(sku, desc, price) == [sku |-> sku, description |-> desc, price |-> price]

dOak  == <<"O","a","k">>
dTeak == <<"t","e","a","k">>

RowsA1 == << Row(skuA100, dOak, Rat(50, 1)), Row(skuA200, dTeak, Rat(80, 1)),
             Row(skuTSNS, dOak, Rat(25, 2)) >>
RowsA2 == << Row(skuA100, dOak, Rat(50, 1)) >>
RowsB1 == << Row(skuTSNS, dTeak, Rat(30, 1)), Row(skuTCONDO, dOak, Rat(40, 1)) >>
RowsBF == << Row(skuTHDB, dOak, Rat(10, 1)), Row(<<"t","-","h","d","b">>, dOak, Rat(11, 1)),
             Row(skuTCONDO, dTeak, Rat(40, 1)), Row(<<"K","-","s","n","s">>, dOak, Rat(30, 1)),
             Row(<<"H","D","B">>, dTeak, Rat(5, 1)), Row(<<"T","-","H","D","B","2">>, dOak, Rat(6, 1)),
             Row(<<"Q","-","C","O","N","D","O">>, dOak, Rat(7, 1)) >>

Missing == "MISSING"    \* no such file on disk

\* The byte contents used as CSV sources, by name.
GoodA == {"A1", "A2"}
GoodB == {"B1"}
SourcesA == {"A1", "A2", "AM", "AX", "GARB"}
SourcesB == {"B1", "BF", "BM", "BX", "GARB"}

\* pd.read_csv(src): the DataFrame (header and rows) of a source, or a raise
\* for bytes that are no table and for a path that does not exist.
ReadCsv(src) ==
    CASE src = "A1" -> [raised |-> FALSE, cols |-> LowerHeader, rows |-> RowsA1]
      [] src = "A2" -> [raised |-> FALSE, cols |-> LowerHeader, rows |-> RowsA2]
      [] src = "AM" -> [raised |-> FALSE, cols |-> MixedHeader, rows |-> RowsA1]
      [] src = "AX" -> [raised |-> FALSE,
                        cols |-> <<<<"S","K","U">>, cDescription>>, rows |-> <<>>]
      [] src = "B1" -> [raised |-> FALSE, cols |-> LowerHeader, rows |-> RowsB1]
      [] src = "BF" -> [raised |-> FALSE, cols |-> LowerHeader, rows |-> RowsBF]
      [] src = "BM" -> [raised |-> FALSE, cols |-> MixedHeader, rows |-> RowsB1]
      [] src = "BX" -> [raised |-> FALSE,
                        cols |-> <<cDescription, <<"U","N","I","T">>, cPrice>>,
                        rows |-> <<>>]
      [] OTHER      -> [raised |-> TRUE, cols |-> <<>>, rows |-> <<>>]

-----------------------------------------------------------------------------
(* Catalog loader                                                          *)

Range(s) == {s[i] : i \in 1..Len(s)}

Required == {cSku, cDescription, cUnit, cPrice}
\* sorted(required - cols) lists the names in this order
RequiredSorted == <<cDescription, cPrice, cSku, cUnit>>

NoError == [raised |-> FALSE, who |-> "", missing |-> <<>>]

\* _validate_columns(df, who): the ValueError it raises, or NoError
ValidateColumns(df, who) ==
    Bind({StrLower(c) : c \in Range(df.cols)}, LAMBDA cols :
      IF Required \subseteq cols THEN NoError
      ELSE [raised |-> TRUE, who |-> who,
            missing |-> SelectSeq(RequiredSorted, LAMBDA r : r \notin cols)])

\* A DataFrame the loader returns is named by the source it was parsed from;
\* Frame gives its content.  NoDf: no frame was returned.
NoDf == "NODF"

WhoA == "Alpha (supplier_a.csv)"
WhoB == "Ben (supplier_b.csv)"

\* (mutant) the header is left as the file spells it
NormalizeColumns_AsIs(df) == [cols |-> df.cols, rows |-> df.rows]

\* a.columns = [c.lower() for c in a.columns]
NormalizeColumns(df) == [cols |-> [i \in 1..Len(df.cols) |-> StrLower(df.cols[i])],
                         rows |-> df.rows]

AllSources == SourcesA \cup SourcesB \cup {Missing, NoDf}

\* The frame load_catalogs_from_tokens makes of a source (tabulated once)
FrameOf == [src \in AllSources |-> NormalizeColumns(ReadCsv(src))]
Frame(src) == FrameOf[src]

\* The body of load_catalogs_from_tokens, run on a cache miss.  srcA / srcB
\* are what the two read_csv calls read: the tokens themselves with uploads,
\* the bundled files otherwise.
LoadBody(srcA, srcB) ==
    LET ra == ReadCsv(srcA)
        rb == ReadCsv(srcB)
        a  == NormalizeColumns(ra)
        b  == NormalizeColumns(rb)
        va == ValidateColumns(a, WhoA)
        vb == ValidateColumns(b, WhoB)
        failed(e) == [ok |-> FALSE, err |-> e, a |-> NoDf, b |-> NoDf]
    IN  IF ra.raised THEN failed([raised |-> TRUE, who |-> "read_csv", missing |-> <<>>])
        ELSE IF rb.raised THEN failed([raised |-> TRUE, who |-> "read_csv", missing |-> <<>>])
        ELSE IF va.raised THEN failed(va)
        ELSE IF vb.raised THEN failed(vb)
        ELSE [ok |-> TRUE, err |-> NoError, a |-> srcA, b |-> srcB]

\* LoadBody, tabulated once
LoadBodyOf == [a \in AllSources, b \in AllSources |-> LoadBody(a, b)]

\* (mutant) the key leaves out the first token
CacheKey_NoA(a_token, b_token, use_uploads) ==
    [a |-> "", b |-> b_token, use_uploads |-> use_uploads]

CacheKey(a_token, b_token, use_uploads) ==
    [a |-> a_token, b |-> b_token, use_uploads |-> use_uploads]

\* @st.cache_data: a hit returns the stored pair; a miss runs the body and
\* stores its return value; a raise stores nothing.
LoadCatalogs(ch, a_token, b_token, use_uploads, srcA, srcB) ==
    Bind(CacheKey(a_token, b_token, use_uploads), LAMBDA key :
      IF \E e \in ch : e.key = key
      THEN Bind(CHOOSE e \in ch : e.key = key, LAMBDA e :
             [cache |-> ch, hit |-> TRUE,
              res |-> [ok |-> TRUE, err |-> NoError, a |-> e.a, b |-> e.b]])
      ELSE Bind(LoadBodyOf[srcA, srcB], LAMBDA res :
             [cache |-> IF res.ok
                        THEN ch \cup {[key |-> key, a |-> res.a, b |-> res.b]}
                        ELSE ch,
              hit |-> FALSE, res |-> res]))

\* Lines 47-56: the cache tokens of this run
UseUploads(up) == up.A # None /\ up.B # None
MtimeOf(f) == IF f.content = Missing THEN 0 ELSE f.mtime
Token(up, fl, side) ==
    IF UseUploads(up) THEN up[side] ELSE ToString(MtimeOf(fl[side]))
\* what read_csv reads for a side in this run
Source(up, fl, side) ==
    IF UseUploads(up) THEN up[side] ELSE fl[side].content

-----------------------------------------------------------------------------
(* Catalog filter                                                          *)

sCondo  == <<"c","o","n","d","o">>
sLanded == <<"l","a","n","d","e","d">>
sHdb    == <<"h","d","b">>
sSns    == <<"s","n","s">>
sStandard == <<"s","t","a","n","d","a","r","d">>
sCONDO  == <<"C","O","N","D","O">>
sSNS    == <<"S","N","S">>
sHDB    == <<"H","D","B">>

LabelA == <<"A"," ","(","A","l","p","h","a",")">>
LabelB == <<"B"," ","(","B","e","n",")">>

\* (mutant) the laminate is looked at before the home
choose_suffix_LaminateFirst(home, laminate) ==
    IF StrLower(StrStrip(laminate)) = sSns
    THEN sSNS
    ELSE IF StrLower(StrStrip(home)) \in
              {sCondo, sLanded, <<"c","o","n","d","o","/","l","a","n","d","e","d">>,
               <<"c","o","n","d","o","_","l","a","n","d","e","d">>}
         THEN sCONDO
         ELSE sHDB

\* choose_suffix(home, laminate)
choose_suffix(home, laminate) ==
    IF StrLower(StrStrip(home)) \in
          {sCondo, sLanded, <<"c","o","n","d","o","/","l","a","n","d","e","d">>,
           <<"c","o","n","d","o","_","l","a","n","d","e","d">>}
    THEN sCONDO
    ELSE IF StrLower(StrStrip(laminate)) = sSns THEN sSNS ELSE sHDB

\* supplier_code = "A" if supplier_label.startswith("A") else "B"
SupplierCode(label) == IF Len(label) >= 1 /\ label[1] = "A" THEN "A" ELSE "B"

\* Lines 95-99: browse_df before the text search
SupplierView(a_df, b_df, label, home, laminate) ==
    IF SupplierCode(label) = "A" THEN a_df.rows
    ELSE IF home # <<>> \/ laminate # <<>>
         THEN SelectSeq(b_df.rows,
                        LAMBDA r : EndsWith(StrUpper(r.sku),
                                            <<"-">> \o choose_suffix(home, laminate)))
         ELSE b_df.rows

\* Lines 101-107: the text search over description and sku
SearchView(rows, q) ==
    IF q # <<>>
    THEN SelectSeq(rows, LAMBDA r : \/ Contains(StrLower(r.description), StrLower(q))
                                    \/ Contains(StrLower(r.sku), StrLower(q)))
    ELSE rows

\* browse_df["sku"].tolist(): the options of the SKU selectbox
BrowseSkus(a_df, b_df, ws) ==
    Bind(SearchView(SupplierView(a_df, b_df, ws.supplier, ws.home, ws.laminate), ws.q),
         LAMBDA rows : [i \in 1..Len(rows) |-> rows[i].sku])

-----------------------------------------------------------------------------
(* Selection store                                                         *)

\* add_line(): sku is the selectbox value, <<>> when it has no option (None)
add_line(ln, sku, ws, qty, override_unit_sell) ==
    IF sku = <<>> THEN ln
    ELSE Append(ln, [sku      |-> sku,
                     supplier |-> SupplierCode(ws.supplier),
                     qty      |-> qty,
                     override_unit_sell |-> StrStrip(override_unit_sell),
                     home     |-> IF SupplierCode(ws.supplier) = "B" THEN ws.home ELSE <<>>,
                     laminate |-> IF SupplierCode(ws.supplier) = "B"
                                  THEN ws.laminate ELSE <<>>])

\* valid_skus = set(a_df["sku"]) | set(b_df["sku"])
ValidSkus(a_df, b_df) ==
    {a_df.rows[i].sku : i \in 1..Len(a_df.rows)} \cup
    {b_df.rows[i].sku : i \in 1..Len(b_df.rows)}

\* (mutant) the count is taken after the list was already replaced
Reconcile_CountAfter(ln, valid_skus) ==
    IF ln # <<>>
    THEN Bind(SelectSeq(ln, LAMBDA l : l.sku \in valid_skus), LAMBDA kept :
           [lines |-> kept, removed |-> Len(kept) - Len(kept), warned |-> FALSE])
    ELSE [lines |-> ln, removed |-> 0, warned |-> FALSE]

\* Lines 143-149: drop lines no longer valid after a catalog change
Reconcile(ln, valid_skus) ==
    IF ln # <<>>
    THEN Bind(SelectSeq(ln, LAMBDA l : l.sku \in valid_skus), LAMBDA kept :
           [lines |-> kept, removed |-> Len(ln) - Len(kept),
            warned |-> Len(ln) - Len(kept) > 0])
    ELSE [lines |-> ln, removed |-> 0, warned |-> FALSE]

\* (mutant) pop() without its index: the last entry goes
Pop_Last(ln, i) == SubSeq(ln, 1, Len(ln) - 1)

\* st.session_state.lines.pop(to_delete), to_delete counted from 1 here
Pop(ln, i) == SubSeq(ln, 1, i - 1) \o SubSeq(ln, i + 1, Len(ln))

-----------------------------------------------------------------------------
(* Pricing                                                                 *)

\* sell_from_margin(cost, margin_pct)
sell_from_margin(cost, margin_pct) ==
    IF Geq(margin_pct, Num(100)) THEN NaN
    ELSE Div(cost, Add(Num(1), Mul(margin_pct, Rat(-1, 100))))

\* lookup_cost(row): the first match in the catalog of the row's supplier
lookup_cost(row, a_df, b_df) ==
    Bind(SelectSeq((IF row.supplier = "A" THEN a_df ELSE b_df).rows,
                   LAMBDA r : r.sku = row.sku), LAMBDA hit :
      IF hit # <<>> THEN hit[1].price ELSE NaN)

\* (mutant) an override that does not parse falls back to the margin price
calc_unit_sell_Fallback(row, cost, margin_pct) ==
    IF row.override_unit_sell # <<>>
    THEN Bind(ParseFloat(row.override_unit_sell), LAMBDA f :
           IF f.raised THEN sell_from_margin(cost, margin_pct) ELSE f.val)
    ELSE sell_from_margin(cost, margin_pct)

\* calc_unit_sell(row)
calc_unit_sell(row, cost, margin_pct) ==
    IF row.override_unit_sell # <<>>
    THEN Bind(ParseFloat(row.override_unit_sell), LAMBDA f :
           IF f.raised THEN NaN ELSE f.val)
    ELSE sell_from_margin(cost, margin_pct)

\* (mutant) unit_sell is rounded before it is multiplied by the quantity
PriceRow_RoundedUnit(row, a_df, b_df, ws) ==
    Bind(lookup_cost(row, a_df, b_df), LAMBDA cost :
      Bind(Round(calc_unit_sell(row, cost, ws.margin_pct), ws.round_nd), LAMBDA unit_sell :
        [sku |-> row.sku, supplier |-> row.supplier, qty |-> row.qty,
         override_unit_sell |-> row.override_unit_sell,
         cost |-> cost, unit_sell |-> unit_sell,
         line_total |-> Round(Mul(unit_sell, row.qty), ws.round_nd)]))

\* One row of the priced frame (lines 187-200)
PriceRow(row, a_df, b_df, ws) ==
    Bind(lookup_cost(row, a_df, b_df), LAMBDA cost :
      Bind(calc_unit_sell(row, cost, ws.margin_pct), LAMBDA unit_sell :
        [sku |-> row.sku, supplier |-> row.supplier, qty |-> row.qty,
         override_unit_sell |-> row.override_unit_sell,
         cost |-> cost, unit_sell |-> unit_sell,
         line_total |-> Round(Mul(unit_sell, row.qty), ws.round_nd)]))

\* Series.sum() of pandas: skipna=True, NaN entries are left out of the sum
RECURSIVE SeriesSum(_)
SeriesSum(xs) ==
    IF xs = <<>> THEN Num(0)
    ELSE IF Head(xs).nan THEN SeriesSum(Tail(xs))
    ELSE Add(Head(xs), SeriesSum(Tail(xs)))

\* Lines 187-204: the priced frame and the three aggregates
Pricing(ln, a_df, b_df, ws) ==
    Bind([i \in 1..Len(ln) |-> PriceRow(ln[i], a_df, b_df, ws)], LAMBDA table :
      Bind(SeriesSum([i \in 1..Len(ln) |-> table[i].line_total]), LAMBDA subtotal :
        Bind(Round(Mul(subtotal, Mul(ws.tax_rate, Rat(1, 100))), ws.round_nd), LAMBDA tax :
          [table |-> table, subtotal |-> subtotal, tax |-> tax,
           total |-> Round(Add(subtotal, tax), ws.round_nd)])))

NoPricing == [table |-> <<>>, subtotal |-> NaN, tax |-> NaN, total |-> NaN]

-----------------------------------------------------------------------------
(* One run of the script                                                   *)

NoCall == [fn |-> "none", args |-> <<>>, result |-> <<>>]
NoClick == [kind |-> "none", idx |-> 0, sku |-> <<>>]

NoOut == [click |-> "init", idx |-> 0, sku |-> <<>>, loaded |-> FALSE, loadOk |-> FALSE,
          hit |-> FALSE, err |-> NoError,
          use_uploads |-> FALSE, srcA |-> Missing, srcB |-> Missing,
          a_df |-> NoDf, b_df |-> NoDf, browse |-> <<>>,
          reconciled |-> FALSE, removed |-> 0, warned |-> FALSE,
          priced |-> FALSE, pricing |-> NoPricing, exported |-> FALSE]

\* Lines 151-224: the row buttons, pricing and the two downloads, on the
\* reconciled list rc and what the run showed so far (o2)
Buttons(ch, rc, o2, a_df, b_df, ws, click) ==
    IF rc.lines = <<>>
    THEN \* line 152: nothing to show, no buttons, no pricing
         [cache |-> ch, lines |-> rc.lines, rerun |-> FALSE, o |-> o2]
    ELSE IF click.kind = "remove" /\ click.idx \in 1..Len(rc.lines)
    THEN \* lines 170-172
         [cache |-> ch, lines |-> Pop(rc.lines, click.idx), rerun |-> TRUE, o |-> o2]
    ELSE IF click.kind = "clear"
    THEN \* lines 174-176
         [cache |-> ch, lines |-> <<>>, rerun |-> TRUE, o |-> o2]
    ELSE [cache |-> ch, lines |-> rc.lines, rerun |-> FALSE,
          o |-> [o2 EXCEPT !.priced = TRUE,
                           !.pricing = Pricing(rc.lines, a_df, b_df, ws),
                           !.exported = TRUE]]

\* Lines 65-224, the script after a load that returned: the filter, the
\* reconciliation, then the buttons and pricing.
AfterLoad(ld, o1, ln, ws, click) ==
    Bind(Reconcile(ln, ValidSkus(Frame(ld.res.a), Frame(ld.res.b))), LAMBDA rc :
      Buttons(ld.cache, rc,
              [o1 EXCEPT !.browse = BrowseSkus(Frame(ld.res.a), Frame(ld.res.b), ws),
                         !.reconciled = TRUE,
                         !.removed = rc.removed, !.warned = rc.warned],
              Frame(ld.res.a), Frame(ld.res.b), ws, click))

\* Lines 47-63: the tokens, the load, and what the run saw of it
LoadStep(up, fl, ch) ==
    LoadCatalogs(ch, Token(up, fl, "A"), Token(up, fl, "B"), UseUploads(up),
                 Source(up, fl, "A"), Source(up, fl, "B"))

LoadOut(up, fl, ld) ==
    [NoOut EXCEPT !.loaded = TRUE, !.loadOk = ld.res.ok, !.hit = ld.hit,
                  !.err = ld.res.err, !.use_uploads = UseUploads(up),
                  !.srcA = Source(up, fl, "A"), !.srcB = Source(up, fl, "B"),
                  !.a_df = ld.res.a, !.b_df = ld.res.b]

\* (mutant) no st.stop() after a failed load: the run goes on with no frames
Pass_NoStop(up, fl, ch, ln, ws, click) ==
    IF click.kind = "refresh"
    THEN [cache |-> {}, lines |-> ln, rerun |-> TRUE, o |-> NoOut]
    ELSE Bind(LoadStep(up, fl, ch), LAMBDA ld :
           AfterLoad(ld, LoadOut(up, fl, ld), ln, ws, click))

\* One top-to-bottom pass of the script: the state it leaves, what it showed,
\* and whether it ended in st.experimental_rerun().
Pass(up, fl, ch, ln, ws, click) ==
    IF click.kind = "refresh"
    THEN \* lines 15-17: clear the cache, rerun
         [cache |-> {}, lines |-> ln, rerun |-> TRUE, o |-> NoOut]
    ELSE Bind(LoadStep(up, fl, ch), LAMBDA ld :
           IF ~ld.res.ok
           THEN \* lines 61-63: st.error, st.stop
                [cache |-> ld.cache, lines |-> ln, rerun |-> FALSE,
                 o |-> LoadOut(up, fl, ld)]
           ELSE AfterLoad(ld, LoadOut(up, fl, ld), ln, ws, click))

\* The script run an interaction starts, with the pass a rerun adds.  The
\* removed count and the warning are those of both passes together.
Script(up, fl, ch, ln, ws, click) ==
    Bind(Pass(up, fl, ch, ln, ws, click), LAMBDA p1 :
      IF p1.rerun
      THEN Bind(Pass(up, fl, p1.cache, p1.lines, ws, NoClick), LAMBDA p2 :
             [cache |-> p2.cache, lines |-> p2.lines,
              o |-> [p2.o EXCEPT !.click = click.kind,
                                 !.idx = click.idx, !.sku = click.sku,
                                 !.removed = p1.o.removed + p2.o.removed,
                                 !.warned = p1.o.warned \/ p2.o.warned]])
      ELSE [cache |-> p1.cache, lines |-> p1.lines,
            o |-> [p1.o EXCEPT !.click = click.kind,
                               !.idx = click.idx, !.sku = click.sku]])

-----------------------------------------------------------------------------
(* Bounds and input pools                                                  *)

MaxLines  == 3     \* longest selection list of the session specification
MaxPriced == 2     \* longest selection list priced in SpecPricing
MaxMtime  == 2     \* latest modification time a bundled file gets

Sides == {"A", "B"}

\* The selectbox / number_input defaults of lines 80-88
DefaultWidgets == [supplier |-> LabelA, home |-> <<>>, laminate |-> <<>>, q |-> <<>>,
                   margin_pct |-> Num(25), tax_rate |-> Num(9), round_nd |-> 2]

SessionWidgets == {DefaultWidgets,
                   [DefaultWidgets EXCEPT !.supplier = LabelB],
                   [DefaultWidgets EXCEPT !.supplier = LabelB, !.q = <<"z","z">>]}
SessionUploads == [A |-> {None, "A1", "A2"}, B |-> {None, "B1"}]

CacheUploads == [A |-> {None, "A1", "A2"}, B |-> {None, "B1", "BM"}]
\* what supplier_a.csv is rewritten to (supplier_b.csv is left as it is)
CacheFiles   == {"A1", "A2", Missing}

-----------------------------------------------------------------------------
(* Interactions                                                            *)

\* The state a script run leaves
Ran(r) ==
    \E res \in {r} :
        /\ cache' = res.cache
        /\ lines' = res.lines
        /\ out'   = res.o

\* A file is put into, or taken out of, one of the two file_uploader
\* widgets; the widget change reruns the script.
Upload(side, v) ==
    /\ uploads' = [uploads EXCEPT ![side] = v]
    /\ Ran(Script(uploads', files, cache, lines, w, NoClick))
    /\ UNCHANGED <<files, w, mtimeKept, call>>

\* A sidebar widget is changed; the script reruns with the new values.
SetWidgets(ws) ==
    /\ ws # w
    /\ w' = ws
    /\ Ran(Script(uploads, files, cache, lines, ws, NoClick))
    /\ UNCHANGED <<uploads, files, mtimeKept, call>>

\* The script runs with nothing clicked (page load, or an input that is
\* read only by a later click).
Rerun ==
    /\ Ran(Script(uploads, files, cache, lines, w, NoClick))
    /\ UNCHANGED <<uploads, files, w, mtimeKept, call>>

\* "Refresh catalogs" (lines 15-17)
RefreshClick ==
    /\ Ran(Script(uploads, files, cache, lines, w, [kind |-> "refresh", idx |-> 0, sku |-> <<>>]))
    /\ mtimeKept' = FALSE
    /\ UNCHANGED <<uploads, files, w, call>>

\* "Add to list": add_line runs as the click's callback, on the values the
\* last run showed, and then the script runs.  The button is on the page
\* only if the last run got past the load.
AddClick(sku, qty, override_unit_sell) ==
    /\ out.loadOk
    /\ Len(lines) < MaxLines
    /\ IF out.browse = <<>> THEN sku = <<>> ELSE sku \in Range(out.browse)
    /\ Ran(Script(uploads, files, cache,
                  add_line(lines, sku, w, qty, override_unit_sell),
                  w, [kind |-> "add", idx |-> 0, sku |-> sku]))
    /\ UNCHANGED <<uploads, files, w, mtimeKept, call>>

\* The "Remove" button of row idx, as the last run showed it
RemoveClick(idx) ==
    /\ out.priced
    /\ idx \in 1..Len(lines)
    /\ Ran(Script(uploads, files, cache, lines, w, [kind |-> "remove", idx |-> idx, sku |-> <<>>]))
    /\ UNCHANGED <<uploads, files, w, mtimeKept, call>>

\* "Clear all selections"
ClearClick ==
    /\ out.priced
    /\ Ran(Script(uploads, files, cache, lines, w, [kind |-> "clear", idx |-> 0, sku |-> <<>>]))
    /\ UNCHANGED <<uploads, files, w, mtimeKept, call>>

\* choose_suffix called on its own, with any two strings (lines 65-70)
CallChooseSuffix(home, laminate) ==
    /\ call' = [fn |-> "choose_suffix", args |-> <<home, laminate>>,
                result |-> choose_suffix(home, laminate)]
    /\ UNCHANGED <<uploads, files, cache, lines, w, out, mtimeKept>>

\* sell_from_margin called on its own, with any two numbers (lines 72-76)
CallSellFromMargin(cost, margin_pct) ==
    /\ call' = [fn |-> "sell_from_margin", args |-> <<cost, margin_pct>>,
                result |-> sell_from_margin(cost, margin_pct)]
    /\ UNCHANGED <<uploads, files, cache, lines, w, out, mtimeKept>>

\* Something outside the app rewrites, creates or deletes a bundled file.
\* The file's mtime moves on, or stays (an edit within the timestamp's
\* granularity, or a tool that restores the stamp).  No script run follows.
EditFile(side, content, mtime) ==
    /\ mtime \in {files[side].mtime, files[side].mtime + 1}
    /\ mtime <= MaxMtime
    /\ <<content, mtime>> # <<files[side].content, files[side].mtime>>
    /\ files' = [files EXCEPT ![side] = [content |-> content, mtime |-> mtime]]
    /\ mtimeKept' = (mtimeKept \/ mtime = files[side].mtime)
    /\ UNCHANGED <<uploads, cache, lines, w, out, call>>

-----------------------------------------------------------------------------
(* Specifications                                                          *)

NoFiles == [s \in Sides |-> [content |-> Missing, mtime |-> 0]]
NoUploads == [s \in Sides |-> None]

\* A session fed by uploads only (no bundled CSV beside the script).
Init ==
    /\ uploads = NoUploads
    /\ files = NoFiles
    /\ cache = {}
    /\ lines = <<>>
    /\ w = DefaultWidgets
    /\ out = NoOut
    /\ mtimeKept = FALSE
    /\ call = NoCall

Next ==
    \/ \E side \in Sides : \E v \in SessionUploads[side] : Upload(side, v)
    \/ \E ws \in SessionWidgets : SetWidgets(ws)
    \/ Rerun
    \/ RefreshClick
    \/ \E sku \in Range(out.browse) \cup {<<>>} : AddClick(sku, Num(2), <<>>)
    \/ \E idx \in 1..MaxLines : RemoveClick(idx)
    \/ ClearClick

Spec == Init /\ [][Next]_vars

\* The loader and its cache, with bundled files that change on disk.
InitCache ==
    /\ uploads = NoUploads
    /\ files = [A |-> [content |-> "A1", mtime |-> 1],
                B |-> [content |-> "B1", mtime |-> 1]]
    /\ cache = {}
    /\ lines = <<>>
    /\ w = DefaultWidgets
    /\ out = NoOut
    /\ mtimeKept = FALSE
    /\ call = NoCall

NextCache ==
    \/ \E side \in Sides : \E v \in CacheUploads[side] : Upload(side, v)
    \/ \E c \in CacheFiles : \E m \in 1..MaxMtime : EditFile("A", c, m)
    \/ Rerun
    \/ RefreshClick

SpecCache == InitCache /\ [][NextCache]_vars

\* The loader as a function of its sources: a run over every pair of
\* uploads and every pair of bundled files.
InitLoader ==
    /\ uploads \in [Sides -> {None}] \cup
                   {[A |-> a, B |-> b] : a \in SourcesA \cup {None}, b \in SourcesB \cup {None}}
    /\ files \in {[A |-> [content |-> a, mtime |-> 1], B |-> [content |-> b, mtime |-> 1]] :
                     a \in SourcesA \cup {Missing}, b \in SourcesB \cup {Missing}}
    /\ cache = {}
    /\ lines = <<>>
    /\ w = DefaultWidgets
    /\ out = NoOut
    /\ mtimeKept = FALSE
    /\ call = NoCall

NextLoader ==
    \/ Rerun
    \/ RefreshClick

SpecLoader == InitLoader /\ [][NextLoader]_vars

\* The supplier filter as a function of the sidebar values.  home and
\* laminate are drawn from more spellings than the two selectboxes offer,
\* as choose_suffix is written for any string.
\* The options of the two selectboxes (lines 83-84)
FilterHomes == {<<>>, sHdb, sCondo, sLanded}
FilterLaminates == {<<>>, sStandard, sSns}
\* Strings for the direct calls of choose_suffix
CallHomes == FilterHomes \cup
             {<<" ","C","o","n","d","o"," ">>,
              <<"L","A","N","D","E","D">>,
              <<"c","o","n","d","o","/","l","a","n","d","e","d">>,
              <<"c","o","n","d","o","_","l","a","n","d","e","d">>,
              <<" ">>, <<"c","o","n","d","o","s">>}
CallLaminates == FilterLaminates \cup {sSNS, <<" ","s","n","s","\t">>}
FilterWidgets == {[DefaultWidgets EXCEPT !.supplier = s, !.home = h, !.laminate = l] :
                     s \in {LabelA, LabelB}, h \in FilterHomes, l \in FilterLaminates}

InitFilter ==
    /\ uploads \in {[A |-> "A1", B |-> b] : b \in {"B1", "BF"}}
    /\ files = NoFiles
    /\ cache = {}
    /\ lines = <<>>
    /\ w \in FilterWidgets
    /\ out = NoOut
    /\ mtimeKept = FALSE
    /\ call = NoCall

NextFilter ==
    \/ Rerun
    \/ \E ws \in FilterWidgets : SetWidgets(ws)
    \/ \E h \in CallHomes, l \in CallLaminates : CallChooseSuffix(h, l)

SpecFilter == InitFilter /\ [][NextFilter]_vars

\* Pricing as a function of the selection list, the catalogs and the pricing
\* inputs.  margin_pct is drawn from beyond the number_input's 0..99 as well,
\* as sell_from_margin is written for any margin.
sel(sku, supplier, qty, ovr) ==
    [sku |-> sku, supplier |-> supplier, qty |-> qty, override_unit_sell |-> ovr,
     home |-> <<>>, laminate |-> <<>>]

PricedSelections ==
    { sel(skuA100, "A", Num(2), <<>>),
      sel(skuA200, "A", Num(1), <<>>),
      sel(skuTSNS, "A", Num(2), <<>>),
      sel(skuTCONDO, "B", Rat(1, 2), <<"1","2",".","5">>),
      sel(skuA100, "A", Num(2), <<"a","b","c">>),
      sel(skuA200, "A", Num(3), <<"-","3">>),
      sel(skuA100, "A", Num(0), <<"1",",","5">>),
      sel(skuA200, "A", Rat(3, 2), <<>>) }

RECURSIVE SeqsUpTo(_, _)
SeqsUpTo(S, n) ==
    IF n = 0 THEN {<<>>}
    ELSE LET shorter == SeqsUpTo(S, n - 1)
         IN  shorter \cup {Append(q, x) : q \in shorter, x \in S}

PricingWidgets ==
    {[DefaultWidgets EXCEPT !.margin_pct = m, !.tax_rate = t, !.round_nd = nd] :
        m \in {Num(25), Num(20), Num(99), Rat(25, 2)},
        t \in {Num(9)}, nd \in {2}} \cup
    {[DefaultWidgets EXCEPT !.margin_pct = Num(20), !.tax_rate = Rat(17, 2), !.round_nd = 0],
     [DefaultWidgets EXCEPT !.margin_pct = Num(0), !.tax_rate = Num(0), !.round_nd = 1]}

InitPricing ==
    /\ uploads \in {[A |-> a, B |-> "B1"] : a \in GoodA}
    /\ files = NoFiles
    /\ cache = {}
    /\ lines \in SeqsUpTo(PricedSelections, MaxPriced)
    /\ w \in PricingWidgets
    /\ out = NoOut
    /\ mtimeKept = FALSE
    /\ call = NoCall

\* Numbers for the direct calls of sell_from_margin
CallCosts == {Num(80), Num(50), NaN}
CallMargins == {Num(20), Num(99), Num(100), Rat(241, 2)}

\* The direct calls neither read nor write the session: they are explored
\* beside the short lists only.
NextPricing ==
    \/ Rerun
    \/ \E ws \in PricingWidgets : SetWidgets(ws)
    \/ /\ Len(lines) <= 1
       /\ \E c \in CallCosts, m \in CallMargins : CallSellFromMargin(c, m)

SpecPricing == InitPricing /\ [][NextPricing]_vars

-----------------------------------------------------------------------------
(* Properties                                                              *)

SkusOf(df) == {df.rows[i].sku : i \in 1..Len(df.rows)}
SkuList(df) == [i \in 1..Len(df.rows) |-> df.rows[i].sku]

\* after is before with exactly the positions Keep holds of, in their order
FilterOf(before, after, Keep(_)) ==
    /\ Len(after) = Cardinality({k \in 1..Len(before) : Keep(k)})
    /\ \A j \in 1..Len(before) :
          Keep(j) => after[Cardinality({k \in 1..j : Keep(k)})] = before[j]

\* y is x rounded to nd decimals: a multiple of 10^-nd, nearest to x, the
\* even one of two equally near
IsRounded(y, x, nd) ==
    /\ ~y.nan /\ ~x.nan
    /\ (y.n * Pow10(nd)) % y.d = 0
    /\ LET yi   == (y.n * Pow10(nd)) \div y.d
           diff == 2 * (yi * x.d - x.n * Pow10(nd))
       IN  /\ Abs(diff) <= x.d
           /\ Abs(diff) = x.d => yi % 2 = 0

RECURSIVE SumExact(_)
SumExact(xs) == IF xs = <<>> THEN Num(0) ELSE Add(Head(xs), SumExact(Tail(xs)))

\* C1: after the reconciliation pass of a run, every selection left in the
\* store has a sku of the catalog its own supplier field names.
C1_SelectionInOwnCatalog ==
    out.reconciled =>
        \A i \in 1..Len(lines) :
            lines[i].sku \in SkusOf(Frame(IF lines[i].supplier = "A"
                                          THEN out.a_df ELSE out.b_df))

\* C2: when a priced line has an undefined line_total, the subtotal, the tax
\* and the total are undefined as well.
C2_UndefinedPropagates ==
    (out.priced /\ \E i \in 1..Len(out.pricing.table) : out.pricing.table[i].line_total.nan)
        => /\ out.pricing.subtotal.nan
           /\ out.pricing.tax.nan
           /\ out.pricing.total.nan

\* C3: a run's reconciliation removes exactly the selections whose sku is in
\* neither catalog, keeps the others in order and unchanged, counts
\* (length before - length after), and warns iff the count is above 0.
\* Stated for the runs that do nothing else to the list (no button pressed,
\* or "Refresh catalogs").
C3_Step ==
    (out'.click \in {"none", "refresh"} /\ out'.reconciled) =>
        /\ FilterOf(lines, lines',
                    LAMBDA j : lines[j].sku \in SkusOf(Frame(out'.a_df))
                                                \cup SkusOf(Frame(out'.b_df)))
        /\ out'.removed = Len(lines) - Len(lines')
        /\ out'.warned <=> out'.removed > 0
C3_Reconcile == [][C3_Step]_vars

\* three selections, the middle one dropped, a count of 1 and a warning
C3_Witness ==
    /\ out.click = "none" /\ out.reconciled
    /\ out.removed = 1 /\ out.warned
    /\ Len(lines) = 2 /\ lines[1].sku = skuA100 /\ lines[2].sku = skuTSNS

\* What float() makes of the override texts of PricedSelections
OverrideParses(t) == t \in {<<"1","2",".","5">>, <<"-","3">>}
OverrideValue(t)  == IF t = <<"1","2",".","5">> THEN Rat(25, 2) ELSE Num(-3)

\* unit_sell * (1 - margin/100) = cost, all three defined
IsMarginSell(unit_sell, cost, margin_pct) ==
    /\ ~unit_sell.nan
    /\ unit_sell.n * (100 * margin_pct.d - margin_pct.n) * cost.d
         = cost.n * 100 * margin_pct.d * unit_sell.d

\* C4: unit_sell is the override when it parses, undefined when it does not
\* parse, and without override cost / (1 - margin/100), undefined from
\* margin 100 on.
C4_RowOk(r) ==
    IF r.override_unit_sell # <<>>
    THEN IF OverrideParses(r.override_unit_sell)
         THEN r.unit_sell = OverrideValue(r.override_unit_sell)
         ELSE r.unit_sell.nan
    ELSE IF Geq(w.margin_pct, Num(100)) \/ r.cost.nan
         THEN r.unit_sell.nan
         ELSE IsMarginSell(r.unit_sell, r.cost, w.margin_pct)
C4_CallOk ==
    call.fn = "sell_from_margin" =>
        IF Geq(call.args[2], Num(100)) \/ call.args[1].nan
        THEN call.result.nan
        ELSE IsMarginSell(call.result, call.args[1], call.args[2])
C4_UnitSell ==
    /\ out.priced => \A i \in 1..Len(out.pricing.table) : C4_RowOk(out.pricing.table[i])
    /\ C4_CallOk

\* margin 20 on cost 80 sells at 100; margin 100 gives no price
C4_Witness ==
    /\ call.fn = "sell_from_margin" /\ call.args = <<Num(80), Num(100)>> /\ call.result.nan
    /\ out.priced /\ w.margin_pct = Num(20)
    /\ \E i \in 1..Len(out.pricing.table) :
          /\ out.pricing.table[i].cost = Num(80)
          /\ out.pricing.table[i].override_unit_sell = <<>>
          /\ out.pricing.table[i].unit_sell = Num(100)

\* The price the uploaded catalogs give a sku (A1/A2 and B1)
ListedPrice(supplier, sku) ==
    CASE supplier = "A" /\ sku = skuA100 -> Num(50)
      [] supplier = "A" /\ sku = skuA200 -> Num(80)
      [] supplier = "A" /\ sku = skuTSNS -> Rat(25, 2)
      [] supplier = "B" /\ sku = skuTSNS -> Num(30)
      [] supplier = "B" /\ sku = skuTCONDO -> Num(40)

AllDefined(table) ==
    \A i \in 1..Len(table) :
        ~table[i].cost.nan /\ ~table[i].unit_sell.nan /\ ~table[i].line_total.nan

\* C5: with every line figure defined, cost and unit_sell are unrounded,
\* line_total = round(unit_sell * qty), subtotal is the sum of the rounded
\* line totals, tax = round(subtotal * tax_rate / 100) and
\* total = round(subtotal + tax); cost 50, qty 2, margin 25, tax 9, 2 digits
\* give 133.33, 133.33, 12.0 and 145.33.
C5_Figures(p) ==
    /\ \A i \in 1..Len(p.table) :
          /\ p.table[i].cost = ListedPrice(p.table[i].supplier, p.table[i].sku)
          /\ p.table[i].override_unit_sell = <<>> =>
                IsMarginSell(p.table[i].unit_sell, p.table[i].cost, w.margin_pct)
          /\ IsRounded(p.table[i].line_total,
                       Mul(p.table[i].unit_sell, p.table[i].qty), w.round_nd)
    /\ p.subtotal = SumExact([i \in 1..Len(p.table) |-> p.table[i].line_total])
    /\ IsRounded(p.tax, Mul(p.subtotal, Mul(w.tax_rate, Rat(1, 100))), w.round_nd)
    /\ IsRounded(p.total, Add(p.subtotal, p.tax), w.round_nd)

C5_ExampleInput ==
    /\ lines = <<sel(skuA100, "A", Num(2), <<>>)>>
    /\ w.margin_pct = Num(25) /\ w.tax_rate = Num(9) /\ w.round_nd = 2

C5_Rounding ==
    (out.priced /\ AllDefined(out.pricing.table)) =>
        /\ C5_Figures(out.pricing)
        /\ C5_ExampleInput =>
              /\ out.pricing.table[1].line_total = Rat(13333, 100)
              /\ out.pricing.subtotal = Rat(13333, 100)
              /\ out.pricing.tax = Num(12)
              /\ out.pricing.total = Rat(14533, 100)

C5_Witness ==
    /\ out.priced /\ C5_ExampleInput
    /\ out.pricing.total = Rat(14533, 100)

\* A step that ran the script (the other steps rewrite a bundled file)
RunStep == files' = files /\ out'.loaded

\* the frames the load returned were parsed from the sources as they were
\* when it ran
Fresh(o) == o.a_df = o.srcA /\ o.b_df = o.srcB

\* identical uploads loaded again, with no clear in between, are served
\* from the cache
C6_SameBytesHit ==
    (out.loadOk /\ out.use_uploads /\ uploads' = uploads /\ out'.click = "none")
        => out'.hit
\* the load after "Refresh catalogs" parses
C6_ClearParses == out'.click = "refresh" => ~out'.hit

\* C6 as claimed: a load never returns frames parsed from other content than
\* the current sources; in upload mode identical bytes hit and other bytes
\* parse; in bundled mode an edited file is parsed again by the next load;
\* after a clear the next load parses.
C6_AsClaimedStep ==
    RunStep =>
        /\ out'.loadOk => Fresh(out')
        /\ C6_SameBytesHit
        /\ C6_ClearParses
        /\ (out.loadOk /\ ~out.use_uploads /\ out'.loadOk /\ ~out'.use_uploads
               /\ out'.srcA # out.srcA) => ~out'.hit
C6_AsClaimed == [][C6_AsClaimedStep]_vars

\* C6, amended: the same, in bundled mode for the edits that moved the
\* file's modification time (none since the last clear kept it).
C6_AmendedStep ==
    RunStep =>
        /\ (out'.loadOk /\ (out'.use_uploads \/ ~mtimeKept')) => Fresh(out')
        /\ C6_SameBytesHit
        /\ C6_ClearParses
        /\ (out.loadOk /\ ~out.use_uploads /\ out'.loadOk /\ ~out'.use_uploads
               /\ out'.srcA # out.srcA /\ ~mtimeKept') => ~out'.hit
C6_Amended == [][C6_AmendedStep]_vars

\* supplier_a.csv was rewritten with a later mtime and the load parsed it:
\* the entry of the earlier mtime is still in the cache, unused
C6_Witness ==
    /\ out.loadOk /\ ~out.use_uploads /\ ~out.hit /\ ~mtimeKept
    /\ out.a_df = "A2" /\ files.A.mtime = 2
    /\ \E e \in cache : ~e.key.use_uploads /\ e.key.a = "1" /\ e.a = "A1"

HasRequired(src) ==
    \A r \in Required : \E i \in 1..Len(ReadCsv(src).cols) : StrLower(ReadCsv(src).cols[i]) = r
MissingOf(src) ==
    {r \in Required : \A i \in 1..Len(ReadCsv(src).cols) : StrLower(ReadCsv(src).cols[i]) # r}
IsLowercase(t) == \A i \in 1..Len(t) : \A k \in 1..Len(UpperAlpha) : t[i] # UpperAlpha[k]

\* the frame of src keeps the columns of the file, each in lowercase
LoweredFrame(src) ==
    /\ Len(Frame(src).cols) = Len(ReadCsv(src).cols)
    /\ \A i \in 1..Len(Frame(src).cols) :
          /\ IsLowercase(Frame(src).cols[i])
          /\ StrLower(ReadCsv(src).cols[i]) = Frame(src).cols[i]

\* C7: with both sources read as tables, the load returns both frames, the
\* columns lowercased, iff each has sku, description, unit and price in any
\* case; otherwise it raises naming the failing side and its missing columns,
\* returns no frame and leaves no cache entry for the call.
C7_LoadIff ==
    (out.loaded /\ ~ReadCsv(out.srcA).raised /\ ~ReadCsv(out.srcB).raised) =>
        /\ out.loadOk <=> (HasRequired(out.srcA) /\ HasRequired(out.srcB))
        /\ out.loadOk =>
              /\ out.a_df = out.srcA /\ out.b_df = out.srcB
              /\ LoweredFrame(out.a_df) /\ LoweredFrame(out.b_df)
        /\ ~out.loadOk =>
              /\ out.err.raised
              /\ out.err.who = IF ~HasRequired(out.srcA) THEN WhoA ELSE WhoB
              /\ Range(out.err.missing) =
                    MissingOf(IF ~HasRequired(out.srcA) THEN out.srcA ELSE out.srcB)
              /\ Len(out.err.missing) = Cardinality(Range(out.err.missing))
              /\ out.a_df = NoDf /\ out.b_df = NoDf
              /\ ~\E e \in cache :
                    e.key = [a |-> Token(uploads, files, "A"),
                             b |-> Token(uploads, files, "B"),
                             use_uploads |-> UseUploads(uploads)]

\* both files spell their headers in mixed case, and the load returned
C7_Witness == out.loadOk /\ out.srcA = "AM" /\ out.srcB = "BM"

\* C8: a run whose load fails stops there: no reconciliation, no pricing, no
\* export, and the selection list is as the run found it.
C8_Step ==
    (out'.loaded /\ ~out'.loadOk /\ files' = files) =>
        /\ ~out'.reconciled /\ ~out'.priced /\ ~out'.exported
        /\ lines' = lines
C8_FailedLoadStops == [][C8_Step]_vars

C8_Witness == out.loaded /\ ~out.loadOk /\ Len(lines) >= 2

\* ln without its entry at position i
RemovedAt(before, after, i) ==
    /\ Len(after) = Len(before) - 1
    /\ \A j \in 1..Len(after) : after[j] = before[IF j < i THEN j ELSE j + 1]

\* C9: "Add to list" with a sku appends one entry and changes no other, with
\* no sku it changes nothing; "Remove" of row idx takes out exactly that
\* entry; "Clear all selections" empties the list.
C9_Step ==
    /\ out'.click = "add" =>
          IF out'.sku = <<>> THEN lines' = lines
          ELSE /\ Len(lines') = Len(lines) + 1
               /\ SubSeq(lines', 1, Len(lines)) = lines
               /\ lines'[Len(lines')].sku = out'.sku
               /\ lines'[Len(lines')].supplier = SupplierCode(w.supplier)
    /\ out'.click = "remove" => RemovedAt(lines, lines', out'.idx)
    /\ out'.click = "clear" => lines' = <<>>
C9_StoreOps == [][C9_Step]_vars

\* the middle one of three different selections was removed
C9_Witness ==
    /\ out.click = "remove" /\ out.idx = 2
    /\ Len(lines) = 2 /\ lines[1].sku = skuA100 /\ lines[2].sku = skuTSNS
    /\ lines[2].supplier = "B"

\* The spellings of FilterHomes that mean condo or landed, and those of
\* FilterLaminates that mean sns
CondoHomes == {sCondo, sLanded, <<" ","C","o","n","d","o"," ">>,
               <<"L","A","N","D","E","D">>,
               <<"c","o","n","d","o","/","l","a","n","d","e","d">>,
               <<"c","o","n","d","o","_","l","a","n","d","e","d">>}
SnsLaminates == {sSns, sSNS, <<" ","s","n","s","\t">>}
ExpectedSuffix(home, laminate) ==
    IF home \in CondoHomes THEN <<"C","O","N","D","O">>
    ELSE IF laminate \in SnsLaminates THEN <<"S","N","S">>
    ELSE <<"H","D","B">>

\* C10: for supplier B the SKU list is catalog B, in its order, cut down to
\* the skus ending (in any case) in "-" + suffix when home or laminate is
\* set, and whole when both are empty.
C10_SuffixFilter ==
    /\ (out.loadOk /\ w.supplier = LabelB /\ w.q = <<>>) =>
          FilterOf(SkuList(Frame(out.b_df)), out.browse,
                   LAMBDA j : \/ (w.home = <<>> /\ w.laminate = <<>>)
                              \/ EndsWith(StrUpper(SkuList(Frame(out.b_df))[j]),
                                          <<"-">> \o ExpectedSuffix(w.home, w.laminate)))
    /\ call.fn = "choose_suffix" =>
          call.result = ExpectedSuffix(call.args[1], call.args[2])

\* home condo wins over laminate sns
C10_Witness ==
    /\ out.loadOk /\ w.supplier = LabelB /\ out.b_df = "BF"
    /\ w.home = sCondo /\ w.laminate = sSns
    /\ out.browse = <<skuTCONDO, <<"Q","-","C","O","N","D","O">>>>
    /\ call.fn = "choose_suffix"
    /\ call.args = <<<<" ","C","o","n","d","o"," ">>, sSNS>>
    /\ call.result = sCONDO

=============================================================================
